---- MODULE Spec2Model ----
(***************************************************************************)
(* Model of src/visualization.py: oriented-box corner geometry, velocity  *)
(* segments, bird's-eye-view projection and rasterisation, and the scene  *)
(* lists handed to the renderer.                                          *)
(*                                                                         *)
(* Arithmetic.  The code computes in floating point.  The model computes  *)
(* the same expressions exactly, in fixed point: every world coordinate   *)
(* the code produces is held as an integer numerator over CoordScale      *)
(* (= 2 * TrigDen: the 2 is the "/ 2" of the half extents, TrigDen the    *)
(* denominator of the cos/sin table).  Angles are drawn from the angles   *)
(* whose cosine and sine are exact rationals over TrigDen: the quarter    *)
(* turns and the 3-4-5 angles.                                            *)
(***************************************************************************)
EXTENDS Integers, Sequences, FiniteSets, TLC

VARIABLES fn, args, ret, rendered, filled

vars == <<fn, args, ret, rendered, filled>>

\* Python's None, and an optional argument that is given: a list, array or
\* colour argument that may be None is passed as None or as Some(value).
None == <<>>
Some(v) == <<v>>

\* ------------------------------------------------------------------ bounds
MaxCenter == 1
MaxExtent == 2
MaxVel == 2
MaxBoxes == 2
MaxImg == 4

\* ------------------------------------------------------------ fixed point
\* np.cos / np.sin (lines 75-76, 127-128): an angle is the pair of numerators
\* <<cos * TrigDen, sin * TrigDen>>.
TrigDen == 5
CoordScale == 2 * TrigDen

QuarterTurns == {<<5, 0>>, <<0, 5>>, <<-5, 0>>, <<0, -5>>}
Angles ==
    QuarterTurns \cup
    {<<3, 4>>, <<4, 3>>, <<-3, 4>>, <<-4, 3>>, <<-3, -4>>, <<-4, -3>>, <<3, -4>>, <<4, -3>>}

np_cos(a) == a[1]
np_sin(a) == a[2]

\* Conversion of a float to int32 (np.array(..., dtype=np.int32)): the
\* fraction is dropped, towards zero.  d > 0.
TruncDiv(n, d) == IF n >= 0 THEN n \div d ELSE -((-n) \div d)

\* A call's outcome: the value returned, or the exception raised with the
\* text its message carries.
Ok(v) == [err |-> "none", val |-> v, msg |-> None]
Raise(e, m) == [err |-> e, val |-> None, msg |-> m]

\* ------------------------------------------------------------ box_to_corner
\* rotation_matrix (lines 77-81), entries over TrigDen.
rotation_matrix_cw(yaw) ==
    << <<np_cos(yaw), np_sin(yaw), 0>>,
       <<-np_sin(yaw), np_cos(yaw), 0>>,
       <<0, 0, TrigDen>> >>
rotation_matrix(yaw) ==
    << <<np_cos(yaw), -np_sin(yaw), 0>>,
       <<np_sin(yaw), np_cos(yaw), 0>>,
       <<0, 0, TrigDen>> >>

\* The sign arrays of lines 84-86 (index k+1 here is corner k of the code).
x_signs == <<1, 1, 1, 1, -1, -1, -1, -1>>
y_signs == <<1, -1, -1, 1, 1, -1, -1, 1>>
z_signs_mirrored == <<1, 1, -1, -1, -1, -1, 1, 1>>
z_signs == <<1, 1, -1, -1, 1, 1, -1, -1>>

\* x_corners = dx / 2 * signs: numerators over 2.
x_corners(dx) == [k \in 1..8 |-> dx * x_signs[k]]
y_corners(dy) == [k \in 1..8 |-> dy * y_signs[k]]
z_corners(dz) == [k \in 1..8 |-> dz * z_signs[k]]

\* np.vstack((x, y, z)).T (line 89): 8 rows of 3.
corners_local(dx, dy, dz) ==
    [k \in 1..8 |-> <<x_corners(dx)[k], y_corners(dy)[k], z_corners(dz)[k]>>]

Transpose(m) == [r \in 1..3 |-> [c \in 1..3 |-> m[c][r]]]

\* np.dot(a, b) for a of shape (8, 3) and b of shape (3, 3).
np_dot(a, b) ==
    [k \in 1..8 |-> [c \in 1..3 |-> a[k][1] * b[1][c] + a[k][2] * b[2][c] + a[k][3] * b[3][c]]]

\* box_to_corner (lines 61-95).  The result's coordinates are numerators over
\* CoordScale.  The assertion of line 70 is the shape error; its message
\* carries the shape it found.
box_to_corner_loose(box) ==
    IF Len(box) < 7 THEN Raise("ShapeError", <<Len(box)>>)
    ELSE LET g == np_dot(corners_local(box[4], box[5], box[6]), Transpose(rotation_matrix(box[7])))
         IN Ok([k \in 1..8 |-> [c \in 1..3 |-> g[k][c] + CoordScale * box[c]]])
box_to_corner(box) ==
    IF Len(box) # 7 THEN Raise("ShapeError", <<Len(box)>>)
    ELSE LET center_x == box[1]
             center_y == box[2]
             center_z == box[3]
             dx == box[4]
             dy == box[5]
             dz == box[6]
             yaw == box[7]
             corners_global == np_dot(corners_local(dx, dy, dz), Transpose(rotation_matrix(yaw)))
             center == <<center_x, center_y, center_z>>
         IN Ok([k \in 1..8 |-> [c \in 1..3 |-> corners_global[k][c] + CoordScale * center[c]]])

\* ---------------------------------------------------------- create_cube_o3d
Red == <<1, 0, 0>>

\* lines (lines 43-48).
lines_crossed ==
    << <<0, 1>>, <<1, 2>>, <<2, 3>>, <<3, 0>>,
       <<4, 5>>, <<5, 6>>, <<6, 7>>, <<7, 4>>,
       <<0, 5>>, <<1, 4>>, <<2, 6>>, <<3, 7>>,
       <<0, 2>>, <<1, 3>> >>
lines ==
    << <<0, 1>>, <<1, 2>>, <<2, 3>>, <<3, 0>>,
       <<4, 5>>, <<5, 6>>, <<6, 7>>, <<7, 4>>,
       <<0, 4>>, <<1, 5>>, <<2, 6>>, <<3, 7>>,
       <<0, 2>>, <<1, 3>> >>

\* create_cube_o3d (lines 35-58): an o3d LineSet.
create_cube_o3d(corners, color) ==
    LET colors == IF color = None
                  THEN [k \in 1..Len(lines) |-> Red]
                  ELSE [k \in 1..Len(lines) |-> color[1]]
    IN [kind |-> "LineSet", points |-> corners, lines |-> lines, colors |-> colors]

\* ------------------------------------------------------------------ box_vel
\* box_vel (lines 124-136).  centers and vel are in world units; the points of
\* the result are numerators over CoordScale (delta = vel * 0.5 is over 2, cos
\* and sin over TrigDen).
box_vel(centers, vel, theta) ==
    LET delta_x == vel[1]
        delta_y == vel[2]
        cos == np_cos(theta)
        sin == np_sin(theta)
        tip == <<CoordScale * centers[1] + delta_x * cos + delta_y * sin,
                 CoordScale * centers[2] + delta_y * cos - delta_x * sin,
                 CoordScale * centers[Len(centers)]>>
        pts == <<[c \in 1..Len(centers) |-> CoordScale * centers[c]], tip>>
    IN [kind |-> "LineSet", points |-> pts, lines |-> << <<0, 1>> >>, colors |-> None]

\* ---------------------------------------------------------- points_to_pixels
\* A resolution is the rational res[1] / res[2] metres per pixel.  Pixel
\* coordinates are floats in the code; here they are numerators over
\* PixelDen(res).
PixelDen(res) == 2 * CoordScale * res[1]

\* points_to_pixels (lines 178-190).  filtered_points holds rows of numerators
\* over CoordScale; column 1 is shifted by bev_imsize[1] / 2 and column 2 by
\* bev_imsize[2] / 2 (numpy broadcasts the shift over the rows).
points_to_pixels(filtered_points, bev_imsize, bev_resolution) ==
    [k \in 1..Len(filtered_points) |->
        [c \in 1..2 |->
            2 * filtered_points[k][c] * bev_resolution[2]
                + CoordScale * bev_resolution[1] * bev_imsize[c]]]

\* ------------------------------------------------------------- cv2.fillPoly
\* The polygon-fill collaborator, as OpenCV implements it: the edges of all
\* the polygons of one call are collected into one edge table; every edge is
\* drawn as a line, and each scan line is filled between the 1st and 2nd, 3rd
\* and 4th, ... crossing of the whole table (even-odd), so a pixel strictly
\* inside an even number of the polygons keeps its value.  Points are (x, y)
\* = (column, row); pixels outside the image are clipped.
Edges(poly) == {<<poly[k], poly[(k % Len(poly)) + 1]>> : k \in 1..Len(poly)}

Min(a, b) == IF a < b THEN a ELSE b
Max(a, b) == IF a > b THEN a ELSE b

\* The pixel lies on the segment e.
OnEdge(x, y, e) ==
    /\ (e[2][1] - e[1][1]) * (y - e[1][2]) = (e[2][2] - e[1][2]) * (x - e[1][1])
    /\ Min(e[1][1], e[2][1]) <= x /\ x <= Max(e[1][1], e[2][1])
    /\ Min(e[1][2], e[2][2]) <= y /\ y <= Max(e[1][2], e[2][2])

\* The edge crosses scan line y to the right of x (its upper end included, its
\* lower end excluded, as in the edge table).
Crosses(x, y, e) ==
    LET up == IF e[1][2] <= e[2][2] THEN e[1] ELSE e[2]
        lo == IF e[1][2] <= e[2][2] THEN e[2] ELSE e[1]
    IN /\ up[2] <= y /\ y < lo[2]
       /\ (x - up[1]) * (lo[2] - up[2]) < (lo[1] - up[1]) * (y - up[2])

RECURSIVE Crossings(_, _, _)
Crossings(x, y, polys) ==
    IF polys = <<>> THEN 0
    ELSE Cardinality({k \in 1..Len(polys[1]) :
                        Crosses(x, y, <<polys[1][k], polys[1][(k % Len(polys[1])) + 1]>>)})
         + Crossings(x, y, Tail(polys))

fillPoly(img, pts, color) ==
    [y \in DOMAIN img |->
        [x \in DOMAIN img[y] |->
            IF \/ \E k \in 1..Len(pts) : \E e \in Edges(pts[k]) : OnEdge(x, y, e)
               \/ Crossings(x, y, pts) % 2 = 1
            THEN color ELSE img[y][x]]]

\* ------------------------------------------------------------- box_to_pixels
\* top (line 167).
top_bowtie == <<0, 4, 1, 5>>
top == <<0, 4, 5, 1>>

\* The list comprehension of lines 163, 118-119 and 150-151 up to row n: the
\* corner sets of the rows in order, or the error of the first row that
\* box_to_corner refuses.
RECURSIVE CornerList(_, _)
CornerList(boxes, n) ==
    IF n = 0 THEN Ok(<<>>)
    ELSE LET before == CornerList(boxes, n - 1)
             this == box_to_corner(boxes[n])
         IN IF before.err # "none" THEN before
            ELSE IF this.err # "none" THEN this
            ELSE Ok(Append(before.val, this.val))

\* np.zeros(bev_imsize): rows 0..height-1 of columns 0..width-1.
np_zeros(shape) == [y \in 0..(shape[1] - 1) |-> [x \in 0..(shape[2] - 1) |-> 0]]

\* corners[:, top, :2] then points_to_pixels per box (lines 168-172).
pixel_coordinates(corners, bev_imsize, bev_resolution) ==
    [b \in 1..Len(corners) |->
        points_to_pixels([t \in 1..Len(top) |-> <<corners[b][top[t] + 1][1], corners[b][top[t] + 1][2]>>],
                         bev_imsize, bev_resolution)]

\* np.array(pixel_coordinates, dtype=np.int32) (line 174).
as_int32(pixels, bev_resolution) ==
    [b \in 1..Len(pixels) |->
        [t \in 1..Len(pixels[b]) |->
            <<TruncDiv(pixels[b][t][1], PixelDen(bev_resolution)),
              TruncDiv(pixels[b][t][2], PixelDen(bev_resolution))>>]]

\* box_to_pixels (lines 156-176): the outcome and the calls made to cv2.fillPoly.
\* With no box, np.array([]) has one dimension and line 168 raises IndexError.
box_to_pixels(boxes, bev_imsize, bev_resolution) ==
    LET corners == CornerList(boxes, Len(boxes))
    IN IF corners.err # "none" THEN [ret |-> corners, filled |-> <<>>]
       ELSE IF Len(boxes) = 0 THEN [ret |-> Raise("IndexError", None), filled |-> <<>>]
       ELSE LET pts == as_int32(pixel_coordinates(corners.val, bev_imsize, bev_resolution),
                                bev_resolution)
                mask == fillPoly(np_zeros(bev_imsize), pts, 255)
            IN [ret |-> Ok(mask), filled |-> <<[pts |-> pts, color |-> 255]>>]

\* ------------------------------------------------------------ scene assembly
\* A point array: its rows and its number of columns (shape[1]).
\* o3d.geometry.PointCloud with its points and optional colours.
PointCloud(points, colors) == [kind |-> "PointCloud", points |-> points, colors |-> colors]
\* o3d.geometry.TriangleMesh.create_coordinate_frame(): the world-origin marker.
Frame == [kind |-> "TriangleMesh", points |-> "coordinate_frame", colors |-> None]

\* The cubes of lines 118-119 and 150-151, up to row n.
RECURSIVE Cubes(_, _, _)
Cubes(boxes, colors, n) ==
    IF n = 0 THEN Ok(<<>>)
    ELSE LET before == Cubes(boxes, colors, n - 1)
             this == box_to_corner(boxes[n])
         IN IF before.err # "none" THEN before
            ELSE IF this.err # "none" THEN this
            ELSE Ok(Append(before.val,
                           create_cube_o3d(this.val,
                                           IF colors # None THEN Some(colors[1][n]) ELSE None)))

\* o3d.visualization.draw_geometries(objects): one call to the renderer.
draw_geometries(objects) == <<[api |-> "draw_geometries", objects |-> objects]>>

\* show (lines 9-32).  kwargs is a function from the keywords given to their
\* values.
show(objects_to_draw, kwargs) ==
    IF "view_point" \in DOMAIN kwargs
    THEN <<[api |-> "Visualizer", objects |-> objects_to_draw,
            view_point |-> kwargs["view_point"],
            saved |-> IF "save_to_path" \in DOMAIN kwargs THEN kwargs["save_to_path"] ELSE None]>>
    ELSE draw_geometries(objects_to_draw)

\* show_point_cloud (lines 98-122): the outcome and the calls to the renderer.
\* The frame of line 114 is built and not put in obj_to_display.
show_point_cloud(points, boxes, point_colors, box_colors) ==
    IF points.cols # 3 THEN [ret |-> Raise("AssertionError", <<Len(points.rows), points.cols>>), rendered |-> <<>>]
    ELSE LET pcd == PointCloud(points, point_colors)
             cubes == IF boxes # None THEN Cubes(boxes[1], box_colors, Len(boxes[1])) ELSE Ok(<<>>)
         IN IF cubes.err # "none" THEN [ret |-> cubes, rendered |-> <<>>]
            ELSE [ret |-> Ok(None), rendered |-> draw_geometries(<<pcd>> \o cubes.val)]

\* show_objects (lines 139-154).
show_objects(ptcloud, boxes, colors) ==
    LET pcd == PointCloud(ptcloud, None)
        cubes == IF boxes # None THEN Cubes(boxes[1], colors, Len(boxes[1])) ELSE Ok(<<>>)
    IN IF cubes.err # "none" THEN [ret |-> cubes, rendered |-> <<>>]
       ELSE [ret |-> Ok(None), rendered |-> show(<<pcd>> \o cubes.val, <<>>)]

\* ------------------------------------------------------------------ inputs
Coords == -MaxCenter..MaxCenter
Extents == 0..MaxExtent
Velocities == -MaxVel..MaxVel
Boxes ==
    {<<cx, cy, cz, dx, dy, dz, yaw>> :
        cx \in Coords, cy \in Coords, cz \in Coords,
        dx \in Extents, dy \in Extents, dz \in Extents, yaw \in Angles}

\* A row that is not 7 scalars: one field short, or one field long.
Malformed == {<<0, 0, 0, 2, 2, 2>>, <<0, 0, 0, 2, 2, 2, <<5, 0>>, 0>>}

SeqsUpTo(S, n) == UNION {[1..k -> S] : k \in 0..n}

\* The boxes that are drawn in sequences (the number of sequences is a power
\* of the number of boxes, so these sets are small): for the rasteriser, boxes
\* at quarter turns, whose footprints are rectangles along the pixel grid.
RasterCenters == {<<0, 0>>, <<1, -1>>}
RasterExtents == {<<0, 0>>, <<2, 2>>, <<1, 2>>}
RasterYaws == {<<5, 0>>, <<0, 5>>}
RasterBoxes ==
    {<<c[1], c[2], 0, e[1], e[2], 2, yaw>> :
        c \in RasterCenters, e \in RasterExtents, yaw \in RasterYaws}
SceneBoxes == {<<cx, 0, 0, 2, 1, 2, yaw>> : cx \in {0, 1}, yaw \in {<<5, 0>>, <<3, 4>>}}
BoxColors == {<<0, 1, 0>>, <<0, 0, 1>>}

\* Image sizes (height, width), square and not, and resolutions in metres per
\* pixel (1/2, 1, 2).
ImSizes == {<<h, w>> : h \in (MaxImg - 1)..MaxImg, w \in (MaxImg - 1)..MaxImg}
Resolutions == {<<1, 2>>, <<1, 1>>, <<2, 1>>}

\* Point arrays of shape (n, cols).
PointArrays ==
    {[rows |-> <<>>, cols |-> 3],
     [rows |-> << <<0, 0, 0>> >>, cols |-> 3],
     [rows |-> << <<0, 0, 0, 1>> >>, cols |-> 4]}
PointColors(points) == {None, Some([k \in 1..Len(points.rows) |-> <<0, 0, 1>>])}

\* World points as rows of numerators over CoordScale, with or without Z.
WorldRows ==
    {<<CoordScale * x, CoordScale * y>> : x \in Coords, y \in Coords}
    \cup {<<CoordScale * x, CoordScale * y, CoordScale * z>> : x \in Coords, y \in Coords, z \in Coords}

Init ==
    /\ fn = "none"
    /\ args = <<>>
    /\ ret = Ok(None)
    /\ rendered = <<>>
    /\ filled = <<>>

\* Every entity is transient and built per call: a call starts from the idle
\* program, and its arguments, result and collaborator calls are dropped when
\* it returns.
Idle == fn = "none"

CallBoxToCorner ==
    /\ Idle
    /\ \E box \in Boxes \cup Malformed :
           /\ fn' = "box_to_corner"
           /\ args' = [box |-> box]
           /\ ret' = box_to_corner(box)
           /\ rendered' = <<>>
           /\ filled' = <<>>

CallCreateCubeO3d ==
    /\ Idle
    /\ \E box \in SceneBoxes, color \in {None} \cup {Some(c) : c \in BoxColors} :
           /\ fn' = "create_cube_o3d"
           /\ args' = [corners |-> box_to_corner(box).val, color |-> color]
           /\ ret' = Ok(create_cube_o3d(box_to_corner(box).val, color))
           /\ rendered' = <<>>
           /\ filled' = <<>>

CallBoxVel ==
    /\ Idle
    /\ \E centers \in Coords \X Coords \X Coords, vel \in Velocities \X Velocities, theta \in Angles :
           /\ fn' = "box_vel"
           /\ args' = [centers |-> centers, vel |-> vel, theta |-> theta]
           /\ ret' = Ok(box_vel(centers, vel, theta))
           /\ rendered' = <<>>
           /\ filled' = <<>>

CallPointsToPixels ==
    /\ Idle
    /\ \E points \in SeqsUpTo(WorldRows, 1), imsize \in ImSizes \cup {<<100, 100>>}, res \in Resolutions :
           /\ fn' = "points_to_pixels"
           /\ args' = [filtered_points |-> points, bev_imsize |-> imsize, bev_resolution |-> res]
           /\ ret' = Ok(points_to_pixels(points, imsize, res))
           /\ rendered' = <<>>
           /\ filled' = <<>>

CallBoxToPixels ==
    /\ Idle
    /\ \E boxes \in SeqsUpTo(RasterBoxes \cup Malformed, MaxBoxes), imsize \in ImSizes,
          res \in Resolutions \ {<<2, 1>>} :
           LET out == box_to_pixels(boxes, imsize, res)
           IN /\ fn' = "box_to_pixels"
              /\ args' = [boxes |-> boxes, bev_imsize |-> imsize, bev_resolution |-> res]
              /\ ret' = out.ret
              /\ rendered' = <<>>
              /\ filled' = out.filled

\* The box colours that go with boxes: none, or one colour per box.
ColorsFor(boxes) ==
    IF boxes = None THEN {None}
    ELSE {None} \cup {Some(c) : c \in [1..Len(boxes[1]) -> BoxColors]}

SceneBoxLists == {None} \cup {Some(b) : b \in SeqsUpTo(SceneBoxes \cup Malformed, MaxBoxes)}

CallShowPointCloud ==
    /\ Idle
    /\ \E points \in PointArrays, boxes \in SceneBoxLists :
           \E point_colors \in PointColors(points), box_colors \in ColorsFor(boxes) :
               LET out == show_point_cloud(points, boxes, point_colors, box_colors)
               IN /\ fn' = "show_point_cloud"
                  /\ args' = [points |-> points, boxes |-> boxes, point_colors |-> point_colors,
                              box_colors |-> box_colors]
                  /\ ret' = out.ret
                  /\ rendered' = out.rendered
                  /\ filled' = <<>>

CallShowObjects ==
    /\ Idle
    /\ \E ptcloud \in PointArrays, boxes \in SceneBoxLists :
           \E colors \in ColorsFor(boxes) :
               LET out == show_objects(ptcloud, boxes, colors)
               IN /\ fn' = "show_objects"
                  /\ args' = [ptcloud |-> ptcloud, boxes |-> boxes, colors |-> colors]
                  /\ ret' = out.ret
                  /\ rendered' = out.rendered
                  /\ filled' = <<>>

\* show called on its own, with and without a view point.
ViewPoint == [front |-> <<0, 0, 1>>, lookat |-> <<0, 0, 0>>, up |-> <<0, 1, 0>>, zoom |-> 1]
Kwargs ==
    {<<>>,
     [view_point |-> None, save_to_path |-> "frame.png"],
     [view_point |-> ViewPoint],
     [view_point |-> ViewPoint, save_to_path |-> "frame.png"]}

CallShow ==
    /\ Idle
    /\ \E points \in PointArrays, kwargs \in Kwargs :
           /\ fn' = "show"
           /\ args' = [objects_to_draw |-> <<PointCloud(points, None)>>, kwargs |-> kwargs]
           /\ ret' = Ok(None)
           /\ rendered' = show(<<PointCloud(points, None)>>, kwargs)
           /\ filled' = <<>>

Return ==
    /\ ~Idle
    /\ fn' = "none"
    /\ args' = <<>>
    /\ ret' = Ok(None)
    /\ rendered' = <<>>
    /\ filled' = <<>>

Next ==
    \/ CallBoxToCorner
    \/ CallCreateCubeO3d
    \/ CallBoxVel
    \/ CallPointsToPixels
    \/ CallBoxToPixels
    \/ CallShowPointCloud
    \/ CallShowObjects
    \/ CallShow
    \/ Return

Spec == Init /\ [][Next]_vars

\* ------------------------------------------------------------------ claims
IsBox(row) == Len(row) = 7
WellFormed(boxes) == \A k \in 1..Len(boxes) : IsBox(boxes[k])
FirstMalformed(boxes) ==
    boxes[CHOOSE k \in 1..Len(boxes) : ~IsBox(boxes[k]) /\ \A j \in 1..(k - 1) : IsBox(boxes[j])]

CornerCall == fn = "box_to_corner" /\ IsBox(args.box)

\* The sign patterns as the specification gives them (corner 0 first).
Sx == <<1, 1, 1, 1, -1, -1, -1, -1>>
Sy == <<1, -1, -1, 1, 1, -1, -1, 1>>
Sz == <<1, 1, -1, -1, 1, 1, -1, -1>>

\* Rz(yaw) * (lx / 2, ly / 2, lz / 2) + (cx, cy, cz), counter-clockwise about Z,
\* over CoordScale.
RzPlus(box, lx, ly, lz) ==
    <<CoordScale * box[1] + np_cos(box[7]) * lx - np_sin(box[7]) * ly,
      CoordScale * box[2] + np_sin(box[7]) * lx + np_cos(box[7]) * ly,
      CoordScale * box[3] + TrigDen * lz>>

\* C1: for every 7-scalar box, box_to_corner returns 8 corners, corner i being
\* center + Rz(yaw) * (sx[i]*dx/2, sy[i]*dy/2, sz[i]*dz/2) with Rz the
\* counter-clockwise rotation about Z; at yaw = 0 every corner's X is cx -/+
\* dx/2, its Y cy -/+ dy/2 and its Z cz -/+ dz/2; and box (0,0,0,2,2,2,0) has
\* (1,1,1) at index 0 and (-1,-1,-1) at index 6.
C1_CornersAreRotatedSignedHalfExtents ==
    CornerCall =>
        LET b == args.box
        IN /\ ret.err = "none"
           /\ DOMAIN ret.val = 1..8
           /\ \A i \in 0..7 :
                ret.val[i + 1] = RzPlus(b, Sx[i + 1] * b[4], Sy[i + 1] * b[5], Sz[i + 1] * b[6])
           /\ b[7] = <<TrigDen, 0>> =>
                \A i \in 0..7 :
                    /\ ret.val[i + 1][1] \in {CoordScale * b[1] - TrigDen * b[4], CoordScale * b[1] + TrigDen * b[4]}
                    /\ ret.val[i + 1][2] \in {CoordScale * b[2] - TrigDen * b[5], CoordScale * b[2] + TrigDen * b[5]}
                    /\ ret.val[i + 1][3] \in {CoordScale * b[3] - TrigDen * b[6], CoordScale * b[3] + TrigDen * b[6]}
           /\ b = <<0, 0, 0, 2, 2, 2, <<TrigDen, 0>>>> =>
                /\ ret.val[1] = <<CoordScale, CoordScale, CoordScale>>
                /\ ret.val[7] = <<-CoordScale, -CoordScale, -CoordScale>>

\* A box turned by the 3-4-5 angle, with three different extents, has its corners.
C1_Witness ==
    /\ fn = "box_to_corner"
    /\ args.box = <<1, -1, 0, 2, 1, 2, <<3, 4>>>>
    /\ ret.err = "none"
    /\ ret.val[1] = <<12, 1, 10>>

\* C2 as stated: the corners of each index pair (0,4), (1,5), (2,6), (3,7) have
\* identical X and Y and opposite Z offsets from the center.
C2_PairsDifferOnlyInZ ==
    CornerCall =>
        \A i \in 1..4 :
            /\ ret.val[i][1] = ret.val[i + 4][1]
            /\ ret.val[i][2] = ret.val[i + 4][2]
            /\ ret.val[i][3] - CoordScale * args.box[3] = -(ret.val[i + 4][3] - CoordScale * args.box[3])

\* C2, amended: the corners of each index pair (0,4), (1,5), (2,6), (3,7) have
\* identical Z and identical box-local Y offsets and differ only in the sign
\* of their box-local X offset: corner i - corner i+4 = Rz(yaw) * (dx, 0, 0).
C2_PairsDifferOnlyInLocalX ==
    CornerCall =>
        \A i \in 1..4 :
            /\ ret.val[i][3] = ret.val[i + 4][3]
            /\ ret.val[i][1] - ret.val[i + 4][1] = 2 * np_cos(args.box[7]) * args.box[4]
            /\ ret.val[i][2] - ret.val[i + 4][2] = 2 * np_sin(args.box[7]) * args.box[4]

\* A turned box with length and height: corners 0 and 4 are apart in X and Y.
C2_Witness ==
    /\ CornerCall
    /\ args.box[4] = 2 /\ args.box[6] = 2 /\ args.box[7] = <<3, 4>>
    /\ ret.val[1][1] # ret.val[5][1]
    /\ ret.val[1][2] # ret.val[5][2]
    /\ ret.val[1][3] = ret.val[5][3]

RasterCall == fn = "box_to_pixels" /\ ret.err = "none"

\* C3: box_to_pixels of two identical boxes [b, b] returns the mask that
\* box_to_pixels of [b] returns; an overlap does not change a covered pixel
\* away from 255.
C3_IdempotentOverlap ==
    (RasterCall /\ Len(args.boxes) = 2 /\ args.boxes[1] = args.boxes[2]) =>
        ret.val = box_to_pixels(<<args.boxes[1]>>, args.bev_imsize, args.bev_resolution).ret.val

\* C4: for N boxes (here N >= 1) box_to_pixels returns one mask of shape
\* (height, width) of cells 0 or 255, a cell being 255 exactly when it is in
\* the footprint of at least one of the boxes (the mask of that box alone).
C4_MaskIsUnionOfFootprints ==
    (fn = "box_to_pixels" /\ Len(args.boxes) >= 1 /\ WellFormed(args.boxes)) =>
        /\ ret.err = "none"
        /\ DOMAIN ret.val = 0..(args.bev_imsize[1] - 1)
        /\ \A y \in DOMAIN ret.val :
            /\ DOMAIN ret.val[y] = 0..(args.bev_imsize[2] - 1)
            /\ \A x \in DOMAIN ret.val[y] :
                /\ ret.val[y][x] \in {0, 255}
                /\ ret.val[y][x] = 255 <=>
                     \E k \in 1..Len(args.boxes) :
                        box_to_pixels(<<args.boxes[k]>>, args.bev_imsize, args.bev_resolution).ret.val[y][x] = 255

\* C5: box_vel returns the segment from the center to the center plus the half
\* velocity turned counter-clockwise by theta, at the center's Z:
\* end = (x + 0.5*(vx*cos - vy*sin), y + 0.5*(vx*sin + vy*cos), z).
C5_VelocityTurnedCounterClockwise ==
    fn = "box_vel" =>
        LET c == args.centers
            v == args.vel
            th == args.theta
        IN /\ Len(ret.val.points) = 2
           /\ ret.val.points[1] = <<CoordScale * c[1], CoordScale * c[2], CoordScale * c[3]>>
           /\ ret.val.points[2] =
                <<CoordScale * c[1] + v[1] * np_cos(th) - v[2] * np_sin(th),
                  CoordScale * c[2] + v[1] * np_sin(th) + v[2] * np_cos(th),
                  CoordScale * c[3]>>

SceneCall == fn \in {"show_point_cloud", "show_objects"}
\* The call gets as far as its boxes: show_point_cloud first asserts the shape
\* of its points (line 107).
ReachesBoxes ==
    \/ fn = "box_to_pixels"
    \/ fn = "show_objects" /\ args.boxes # None
    \/ fn = "show_point_cloud" /\ args.boxes # None /\ args.points.cols = 3
BoxRows == IF fn = "box_to_pixels" THEN args.boxes ELSE args.boxes[1]

SceneColor(k) ==
    IF fn = "show_point_cloud"
    THEN (IF args.box_colors = None THEN None ELSE Some(args.box_colors[1][k]))
    ELSE (IF args.colors = None THEN None ELSE Some(args.colors[1][k]))

\* C7: the list show_point_cloud and show_objects hand to the renderer holds
\* the point cloud, the B box outlines in box order, and the world-origin
\* frame marker.
C7_RendererGetsCloudOutlinesAndFrame ==
    (SceneCall /\ ret.err = "none") =>
        LET B == IF args.boxes = None THEN 0 ELSE Len(args.boxes[1])
        IN /\ Len(rendered) = 1
           /\ LET objs == rendered[1].objects
              IN /\ Len(objs) = B + 2
                 /\ objs[1].kind = "PointCloud"
                 /\ \A k \in 1..B :
                        objs[k + 1] = create_cube_o3d(box_to_corner(args.boxes[1][k]).val, SceneColor(k))
                 /\ \E k \in 1..Len(objs) : objs[k] = Frame

\* The outlines of the state: the result of create_cube_o3d, or the outlines
\* in the list a scene call rendered, each with the colour it was given.
Outlines ==
    IF fn = "create_cube_o3d" THEN {[cube |-> ret.val, color |-> args.color]}
    ELSE IF SceneCall /\ rendered # <<>>
    THEN {[cube |-> rendered[1].objects[k + 1], color |-> SceneColor(k)] :
            k \in 1..(Len(rendered[1].objects) - 1)}
    ELSE {}

\* The number of axes along which the local offsets of corners a and b differ.
DiffAxes(a, b) ==
    Cardinality({ax \in 1..3 : <<x_signs, y_signs, z_signs>>[ax][a + 1] # <<x_signs, y_signs, z_signs>>[ax][b + 1]})
BoxEdges == {{a, b} : a \in 0..7, b \in 0..7} \ {{a} : a \in 0..7}
TrueEdges == {e \in BoxEdges : \A a \in e, b \in e : a # b => DiffAxes(a, b) = 1}
ForwardDiagonals == {e \in BoxEdges : e \subseteq 0..3 /\ \A a \in e, b \in e : a # b => DiffAxes(a, b) = 2}

\* C8: every outline has 14 segments over the 8 corners: 12 that are the edges
\* of the box, each once, and the 2 diagonals of the forward face (corners
\* 0-3); all 14 have one colour, red when none is given and the given one
\* otherwise.
C8_OutlineIsTwelveEdgesTwoDiagonals ==
    \A o \in Outlines :
        /\ Len(o.cube.lines) = 14
        /\ DOMAIN o.cube.points = 1..8
        /\ Cardinality({{o.cube.lines[k][1], o.cube.lines[k][2]} : k \in 1..12}) = 12
        /\ {{o.cube.lines[k][1], o.cube.lines[k][2]} : k \in 1..12} = TrueEdges
        /\ {{o.cube.lines[k][1], o.cube.lines[k][2]} : k \in 13..14} = ForwardDiagonals
        /\ Cardinality(ForwardDiagonals) = 2
        /\ Len(o.cube.colors) = 14
        /\ \A k \in 1..14 : o.cube.colors[k] = (IF o.color = None THEN <<1, 0, 0>> ELSE o.color[1])

\* show_point_cloud rendered two outlines, each in its own given colour.
C8_Witness ==
    /\ fn = "show_point_cloud"
    /\ Len(rendered) = 1
    /\ Len(rendered[1].objects) = 3
    /\ args.box_colors # None
    /\ args.box_colors[1][1] # args.box_colors[1][2]
    /\ rendered[1].objects[2].colors[1] = args.box_colors[1][1]
    /\ rendered[1].objects[3].colors[14] = args.box_colors[1][2]

\* C9: points_to_pixels returns (X, Y) / resolution + image_size / 2, and with
\* it the world origin maps to the image center for every (height, width): the
\* footprint of a box centered at world (0, 0) covers the center cell of the
\* mask (row height/2, column width/2); points_to_pixels([[0,0]], (100,100),
\* 0.5) is [[50, 50]].
C9_OriginMapsToImageCenter ==
    /\ fn = "points_to_pixels" =>
        /\ \A k \in 1..Len(args.filtered_points) :
             \A c \in 1..2 :
                \* ret / PixelDen = (point / CoordScale) / (res[1] / res[2]) + size / 2,
                \* multiplied through by 2 * CoordScale * res[1] * PixelDen.
                ret.val[k][c] * 2 * CoordScale * args.bev_resolution[1] =
                    PixelDen(args.bev_resolution) *
                        (2 * args.filtered_points[k][c] * args.bev_resolution[2]
                            + CoordScale * args.bev_resolution[1] * args.bev_imsize[c])
        /\ (args.filtered_points = << <<0, 0>> >> /\ args.bev_imsize = <<100, 100>>
                /\ args.bev_resolution = <<1, 2>>) =>
             ret.val = << <<50 * PixelDen(<<1, 2>>), 50 * PixelDen(<<1, 2>>)>> >>
    /\ (RasterCall /\ Len(args.boxes) = 1 /\ args.boxes[1][1] = 0 /\ args.boxes[1][2] = 0) =>
        ret.val[args.bev_imsize[1] \div 2][args.bev_imsize[2] \div 2] = 255

\* C10: the corners box_to_pixels selects, top = [0, 4, 5, 1] in that order,
\* are all at Z = center_z + dz/2, and each step of the cycle goes along one
\* side of the top rectangle (it changes the local X sign alone, by Rz(yaw) *
\* (dx, 0) or its opposite, or the local Y sign alone, by Rz(yaw) * (0, dy) or
\* its opposite); so the polygon given to the fill has every side along a
\* pixel row or column at quarter turns, and is no bow-tie.
C10_TopFaceIsSimpleRectangle ==
    /\ CornerCall =>
        LET b == args.box
            v == ret.val
            alongX == <<2 * np_cos(b[7]) * b[4], 2 * np_sin(b[7]) * b[4]>>
            alongY == <<-2 * np_sin(b[7]) * b[5], 2 * np_cos(b[7]) * b[5]>>
        IN /\ Len(top) = 4
           /\ \A t \in 1..4 : v[top[t] + 1][3] = CoordScale * b[3] + TrigDen * b[6]
           /\ \A t \in 1..4 :
                LET p == v[top[t] + 1]
                    q == v[top[(t % 4) + 1] + 1]
                    d == <<q[1] - p[1], q[2] - p[2]>>
                    xStep == x_signs[top[t] + 1] # x_signs[top[(t % 4) + 1] + 1]
                    yStep == y_signs[top[t] + 1] # y_signs[top[(t % 4) + 1] + 1]
                IN /\ xStep # yStep
                   /\ xStep => d \in {alongX, <<-alongX[1], -alongX[2]>>}
                   /\ yStep => d \in {alongY, <<-alongY[1], -alongY[2]>>}
    /\ (RasterCall /\ filled # <<>>) =>
        \A k \in 1..Len(filled[1].pts) :
            \A t \in 1..4 :
                LET p == filled[1].pts[k][t]
                    q == filled[1].pts[k][(t % 4) + 1]
                IN p[1] = q[1] \/ p[2] = q[2]

\* box_to_pixels filled the polygon of a box that is longer than wide: four
\* different pixel corners.
C10_Witness ==
    /\ RasterCall
    /\ Len(filled) = 1
    /\ Len(filled[1].pts) = 1
    /\ Cardinality({filled[1].pts[1][t] : t \in 1..4}) = 4
    /\ args.boxes[1][4] # args.boxes[1][5]
====
